---- MODULE Spec2Model ----
(***************************************************************************)
(* Model of src/main.py: the mod-folder scanner, the metadata extractor,   *)
(* the embedded-dependency detector and the DOT graph builder.             *)
(*                                                                         *)
(* Values.  A JSON/TOML value read from a manifest is a string, or Python  *)
(* None (NoneVal: the key is missing), or a non-string value such as a     *)
(* number (IntVal).  ""  is the empty string.                              *)
(*                                                                         *)
(* Archives.  A jar is a record                                            *)
(*   [readable, fabric, toml, mcmod, entries]                              *)
(* readable: zipfile.ZipFile opens it; fabric/toml/mcmod: the content of   *)
(* fabric.mod.json, META-INF/mods.toml and mcmod.info (NoFile when the     *)
(* path is not in namelist()); entries: the other paths of namelist(), in  *)
(* order, each [dir, ext, bytes]: the folders of the path, the extension   *)
(* of the file name and, for a nested jar, the jar its bytes hold.         *)
(***************************************************************************)
EXTENDS Integers, Sequences, FiniteSets, TLC

NoneVal == "<None>"
IntVal == "<42>"

\* The bounds of the model.
MaxJars == 3
MaxDeps == 1

----------------------------------------------------------------------------
(* Python primitives *)

IsStr(v) == v \notin {NoneVal, IntVal}

\* bool(v) for a manifest value: None and "" are falsy, a non-zero number is truthy.
Truthy(v) == v # NoneVal /\ v # ""

\* str.lower() on the identifiers and folder names of the model.
Lower(s) ==
    CASE s = "LibX" -> "libx"
      [] s = "Forge" -> "forge"
      [] s = "Assets" -> "assets"
      [] s = "Com" -> "com"
      [] s = "CLASS" -> "class"
      [] OTHER -> s

\* a in b for two strings of the model (substring).
IsSubstring(a, b) ==
    \/ a = ""
    \/ a = b
    \/ a = "lib" /\ b \in {"libx", "LibX"}
    \/ a = "forge" /\ b = "neoforge"

\* x or y
PyOr(x, y) == IF Truthy(x) THEN x ELSE y

\* seq[:n] startswith: the path's folders begin with the folders of prefix.
StartsWith(dir, prefix) ==
    /\ Len(dir) >= Len(prefix)
    /\ \A k \in 1..Len(prefix) : dir[k] = prefix[k]

LowerPath(dir) == [k \in 1..Len(dir) |-> Lower(dir[k])]

\* d[k] = v on a dict kept in insertion order: an existing key keeps its place.
DictSetFirstWins(d, k, v) ==
    IF \E j \in 1..Len(d) : d[j].dep = k
    THEN d
    ELSE Append(d, [dep |-> k, required |-> v])

DictSet(d, k, v) ==
    IF \E j \in 1..Len(d) : d[j].dep = k
    THEN [j \in 1..Len(d) |-> IF d[j].dep = k THEN [dep |-> k, required |-> v] ELSE d[j]]
    ELSE Append(d, [dep |-> k, required |-> v])

\* for dep in keys: depends[dep] = {"required": req}
RECURSIVE SetAll(_, _, _)
SetAll(d, keys, req) ==
    IF keys = <<>> THEN d
    ELSE SetAll(DictSet(d, Head(keys), req), Tail(keys), req)

DictKeys(d) == {d[j].dep : j \in 1..Len(d)}

----------------------------------------------------------------------------
(* Mod IDs to exclude from results *)

IGNORED_MODS ==
    { "minecraft", "forge", "neoforge", "fabricloader", "fabric-loader",
      "fabric", "fabric-api", "fabric_api", "fabric-resource-loader-v0",
      "fabric-screen-api-v1", "fabric-networking-api-v1",
      "fabric-lifecycle-events-v1", "fabric-renderer-api-v1",
      "fabric-registry-sync-v0", "fabric-api-base",
      "fabric-events-interaction-v0", "fabric-permissions-api-v0",
      "fabric-command-api-v2", "fabric-kotlin", "java" }

\* should_ignore raises AttributeError when modid is truthy and has no lower().
should_ignore_raises(modid) == Truthy(modid) /\ ~IsStr(modid)

should_ignore_exact(modid) == Truthy(modid) /\ modid \in IGNORED_MODS

\* The truth value of should_ignore(modid) when it does not raise.
should_ignore(modid) == Truthy(modid) /\ Lower(modid) \in IGNORED_MODS

----------------------------------------------------------------------------
(* Manifests *)

NoFile == [present |-> FALSE]

\* A descriptor is [none |-> FALSE, id, name, depends]; NONE is Python None.
NONE == [none |-> TRUE]
Fail == [ok |-> FALSE]

\* fabric.mod.json: lines 199-213 (and 57-71). shape "unparsable": json.load
\* raises; "badfield": a field access raises (depends is not a mapping).
ParseFabric(m) ==
    IF m.shape # "ok" THEN Fail
    ELSE LET mod_id == m.id
             name == PyOr(m.name, mod_id)
             d1 == SetAll(<<>>, m.depends, TRUE)
             d2 == SetAll(d1, m.recommends, FALSE)
             d3 == SetAll(d2, m.suggests, FALSE)
         IN [ok |-> TRUE, desc |-> [none |-> FALSE, id |-> mod_id, name |-> name, depends |-> d3]]

\* for dep in depArr: depends[dep.get("modId")] = {"required": dep.get("mandatory", False)}
\* arr holds the tables of every owner; depArr is those of mod_id. mandatory is
\* "true", "false" or "absent".
RECURSIVE TomlDeps(_, _, _)
TomlDeps(d, arr, mod_id) ==
    IF arr = <<>> THEN d
    ELSE LET dep == Head(arr)
             required == (dep.mandatory = "true")
         IN TomlDeps(IF dep.owner = mod_id THEN DictSet(d, dep.modId, required) ELSE d,
                     Tail(arr), mod_id)

\* META-INF/mods.toml: lines 221-238 (and 79-96). An empty or missing mods
\* list returns None at once.
ParseToml(m) ==
    IF m.shape # "ok" THEN Fail
    ELSE IF m.mods = <<>> THEN [ok |-> TRUE, desc |-> NONE]
    ELSE LET mod_id == m.mods[1].modId
             name == PyOr(m.mods[1].displayName, mod_id)
         IN [ok |-> TRUE,
             desc |-> [none |-> FALSE, id |-> mod_id, name |-> name,
                       depends |-> TomlDeps(<<>>, m.dependencies, mod_id)]]

\* mcmod.info: lines 244-256 (and 103-114). shape "notlist": the document is
\* not a non-empty list, and no branch returns.
ParseMcmod(m) ==
    IF m.shape # "ok" THEN Fail
    ELSE LET mod_id == m.modid
             name == PyOr(m.name, mod_id)
             d1 == SetAll(<<>>, m.dependencies, TRUE)
             d2 == SetAll(d1, m.requiredMods, TRUE)
         IN [ok |-> TRUE, desc |-> [none |-> FALSE, id |-> mod_id, name |-> name, depends |-> d2]]

\* A variant that stops at the first manifest path found.
ExtractFirstMatchOnly(jar) ==
    IF ~jar.readable THEN NONE
    ELSE IF jar.fabric.present
         THEN (IF ParseFabric(jar.fabric).ok THEN ParseFabric(jar.fabric).desc ELSE NONE)
    ELSE IF jar.toml.present
         THEN (IF ParseToml(jar.toml).ok THEN ParseToml(jar.toml).desc ELSE NONE)
    ELSE IF jar.mcmod.present /\ ParseMcmod(jar.mcmod).ok
         THEN ParseMcmod(jar.mcmod).desc
    ELSE NONE

\* The three schema blocks in order; an except: pass falls to the next if.
ExtractDescriptor(jar) ==
    IF ~jar.readable THEN NONE
    ELSE IF jar.fabric.present /\ ParseFabric(jar.fabric).ok
         THEN ParseFabric(jar.fabric).desc
    ELSE IF jar.toml.present /\ ParseToml(jar.toml).ok
         THEN ParseToml(jar.toml).desc
    ELSE IF jar.mcmod.present /\ ParseMcmod(jar.mcmod).ok
         THEN ParseMcmod(jar.mcmod).desc
    ELSE NONE

extract_metadata_from_bytes(raw_bytes) == ExtractDescriptor(raw_bytes)

\* The folder descriptor carries "_path": here the jar's place in the folder.
extract_mod_metadata(jar, jar_path) ==
    LET r == ExtractDescriptor(jar)
    IN IF r.none THEN NONE
       ELSE [none |-> FALSE, id |-> r.id, name |-> r.name, depends |-> r.depends,
             path |-> jar_path]

----------------------------------------------------------------------------
(* Detect whether a dependency is embedded inside a .jar *)

\* --- 1. META-INF/jars/ and jarjar/ embedded jars (lines 136-149); an
\* exception inside the try (a non-string id has no lower()) is passed over.
NestedJarMatches(e, dep) ==
    /\ \/ StartsWith(e.dir, <<"META-INF", "jars">>)
       \/ StartsWith(e.dir, <<"META-INF", "jarjar">>)
    /\ e.ext = "jar"
    /\ LET meta == extract_metadata_from_bytes(e.bytes)
       IN /\ ~meta.none
          /\ Truthy(meta.id)
          /\ IsStr(meta.id)
          /\ Lower(meta.id) = dep

NestedJars(entries, dep) == \E k \in 1..Len(entries) : NestedJarMatches(entries[k], dep)

\* --- 2. Namespace folders: assets/dep/, data/dep/ (lines 152-158); the paths
\* are compared as they are, dep is the lower-cased identifier.
NamespaceFolders(entries, dep) ==
    \E k \in 1..Len(entries) :
        \/ StartsWith(entries[k].dir, <<"assets", dep>>)
        \/ StartsWith(entries[k].dir, <<"data", dep>>)

\* --- 3. Class packages heuristic (lines 161-171), on the lower-cased path.
ClassPackages(entries, dep) ==
    \E k \in 1..Len(entries) :
        LET n == LowerPath(entries[k].dir)
        IN /\ \/ StartsWith(n, <<dep>>)
              \/ StartsWith(n, <<"com", dep>>)
              \/ StartsWith(n, <<"net", dep>>)
              \/ StartsWith(n, <<"io", dep>>)
           /\ Lower(entries[k].ext) = "class"

\* for entry in data.get("jars", []): the first entry whose id contains dep
\* returns True; an entry whose id has no lower() raises, which ends the loop.
RECURSIVE JarsListLoop(_, _)
JarsListLoop(jars, dep) ==
    IF jars = <<>> THEN FALSE
    ELSE IF ~IsStr(Head(jars)) THEN FALSE
    ELSE IF IsSubstring(dep, Lower(Head(jars))) THEN TRUE
    ELSE JarsListLoop(Tail(jars), dep)

\* --- 4. Fabric embedded 'jars' list (lines 174-181).
FabricJarsList(fabric, dep) ==
    /\ fabric.present
    /\ fabric.shape # "unparsable"
    /\ JarsListLoop(fabric.jars, dep)

\* The call's outcome: raised, or the value returned and the number of the
\* heuristic that returned it (0: the final return False).
Returned(value, h) == [raised |-> FALSE, value |-> value, h |-> h]
Raised == [raised |-> TRUE, value |-> FALSE, h |-> 0]

\* dep = dep_id.lower() (line 126) is outside every try.
is_dependency_embedded(jar, dep_id) ==
    IF ~IsStr(dep_id) THEN Raised
    ELSE LET dep == Lower(dep_id)
         IN IF ~jar.readable THEN Returned(FALSE, 0)
            ELSE IF NestedJars(jar.entries, dep) THEN Returned(TRUE, 1)
            ELSE IF NamespaceFolders(jar.entries, dep) THEN Returned(TRUE, 2)
            ELSE IF ClassPackages(jar.entries, dep) THEN Returned(TRUE, 3)
            ELSE IF FabricJarsList(jar.fabric, dep) THEN Returned(TRUE, 4)
            ELSE Returned(FALSE, 0)

----------------------------------------------------------------------------
(* Archives the model draws its inputs from *)

\* Sequences over S, without repetition, of length at most n.
Lists(S, n) ==
    UNION { { q \in [1..k -> S] : \A a, b \in 1..k : a # b => q[a] # q[b] } : k \in 0..n }

\* Sequences over S of length at most n.
Arrays(S, n) == UNION { [1..k -> S] : k \in 0..n }

Fabric(shape, id, name, depends, recommends, suggests, jars) ==
    [present |-> TRUE, shape |-> shape, id |-> id, name |-> name, depends |-> depends,
     recommends |-> recommends, suggests |-> suggests, jars |-> jars]

Toml(shape, mods, dependencies) ==
    [present |-> TRUE, shape |-> shape, mods |-> mods, dependencies |-> dependencies]

Mcmod(shape, modid, name, dependencies, requiredMods) ==
    [present |-> TRUE, shape |-> shape, modid |-> modid, name |-> name,
     dependencies |-> dependencies, requiredMods |-> requiredMods]

Jar(readable, fabric, toml, mcmod, entries) ==
    [readable |-> readable, fabric |-> fabric, toml |-> toml, mcmod |-> mcmod,
     entries |-> entries]

NoBytes == Jar(FALSE, NoFile, NoFile, NoFile, <<>>)
Entry(dir, ext) == [dir |-> dir, ext |-> ext, bytes |-> NoBytes]
Nested(dir, ext, jar) == [dir |-> dir, ext |-> ext, bytes |-> jar]

FabricOf(id) == Fabric("ok", id, NoneVal, <<>>, <<>>, <<>>, <<>>)
FabricBad == Fabric("unparsable", NoneVal, NoneVal, <<>>, <<>>, <<>>, <<>>)
FabricBadField == Fabric("badfield", "alpha", NoneVal, <<>>, <<>>, <<>>, <<>>)
TomlBad == Toml("unparsable", <<>>, <<>>)
TomlOf(id) == Toml("ok", <<[modId |-> id, displayName |-> NoneVal]>>, <<>>)
McmodBad == Mcmod("unparsable", NoneVal, NoneVal, <<>>, <<>>)
McmodNotList == Mcmod("notlist", NoneVal, NoneVal, <<>>, <<>>)
McmodOf(id) == Mcmod("ok", id, NoneVal, <<>>, <<>>)

DepNames == {"libx", "beta"}

\* Schema A manifests with every mix of depends / recommends / suggests.
FabricRich ==
    { Fabric("ok", id, name, d, r, s, <<>>) :
        id \in {"alpha", NoneVal}, name \in {NoneVal, "Alpha Mod"},
        d \in Lists(DepNames, MaxDeps), r \in Lists(DepNames, MaxDeps),
        s \in Lists(DepNames, MaxDeps) }

TomlDepEntries ==
    [owner : {"alpha", "beta"}, modId : {"libx", NoneVal},
     mandatory : {"absent", "true", "false"}]

TomlModsLists ==
    { <<>>,
      <<[modId |-> "alpha", displayName |-> NoneVal]>>,
      <<[modId |-> "alpha", displayName |-> "Alpha Mod"],
        [modId |-> "beta", displayName |-> NoneVal]>>,
      <<[modId |-> NoneVal, displayName |-> NoneVal]>> }

\* Schema B manifests; the dependency tables of every owner, in file order.
TomlRich ==
    { Toml("ok", mods, deps) :
        mods \in TomlModsLists, deps \in Arrays(TomlDepEntries, MaxDeps + 1) }

\* Schema C manifests.
McmodRich ==
    { Mcmod("ok", "alpha", name, d, r) :
        name \in {NoneVal, "Alpha Mod"},
        d \in Arrays(DepNames, MaxDeps), r \in Arrays(DepNames, MaxDeps) }

\* Archives holding several manifests at once, good and bad.
MixedJars ==
    { Jar(rd, f, t, m, <<>>) :
        rd \in BOOLEAN,
        f \in {NoFile, FabricBad, FabricBadField, FabricOf("alpha")},
        t \in {NoFile, TomlBad, Toml("ok", <<>>, <<>>), TomlOf("beta")},
        m \in {NoFile, McmodBad, McmodNotList, McmodOf("gamma")} }

\* Entries an archive can bundle a dependency with.
BundleEntries ==
    { Nested(<<"META-INF", "jars">>, "jar", Jar(TRUE, FabricOf("libx"), NoFile, NoFile, <<>>)),
      Nested(<<"META-INF", "jarjar">>, "jar", Jar(TRUE, NoFile, TomlOf("LibX"), NoFile, <<>>)),
      Nested(<<"META-INF", "jars">>, "jar", Jar(TRUE, FabricOf(IntVal), NoFile, NoFile, <<>>)),
      Nested(<<"META-INF", "jars">>, "jar", Jar(TRUE, FabricOf("beta"), NoFile, NoFile, <<>>)),
      Nested(<<"META-INF", "jars">>, "jar", NoBytes),
      Nested(<<"META-INF", "jars">>, "zip", Jar(TRUE, FabricOf("libx"), NoFile, NoFile, <<>>)),
      Nested(<<"libs">>, "jar", Jar(TRUE, FabricOf("libx"), NoFile, NoFile, <<>>)),
      Entry(<<"assets", "libx", "textures">>, "png"),
      Entry(<<"assets", "LibX">>, "png"),
      Entry(<<"data", "libx">>, "json"),
      Entry(<<"Assets", "libx">>, "png"),
      Entry(<<"assets", "">>, "png"),
      Entry(<<"libx">>, "class"),
      Entry(<<"Com", "LibX", "api">>, "CLASS"),
      Entry(<<"org", "libx">>, "class"),
      Entry(<<"net", "libx">>, "png") }

BundleJars ==
    { Jar(TRUE, NoFile, NoFile, NoFile, es) : es \in Arrays(BundleEntries, 1) }
    \cup
    { Jar(TRUE, Fabric(shape, "alpha", NoneVal, <<>>, <<>>, <<>>, jars), NoFile, NoFile, <<>>) :
        shape \in {"ok", "badfield", "unparsable"},
        jars \in {<<"LibX">>, <<"beta", "libx">>, <<IntVal, "libx">>, <<"">>} }
    \cup { NoBytes }

UnitJars ==
    { Jar(TRUE, f, NoFile, NoFile, <<>>) : f \in FabricRich }
    \cup { Jar(TRUE, NoFile, t, NoFile, <<>>) : t \in TomlRich }
    \cup { Jar(TRUE, NoFile, NoFile, m, <<>>) : m \in McmodRich }
    \cup MixedJars
    \cup BundleJars

DepArgs == {"libx", "LibX", "lib", "", "beta", NoneVal, IntVal}

----------------------------------------------------------------------------
(* State *)

VARIABLES
    jar,      \* unit calls: the archive the function is called on
    arg,      \* unit calls: the dep_id argument
    ret,      \* unit calls: the last call and its outcome
    folder,   \* the *.jar files of the folder, in glob order
    pc,       \* where __main__ is
    i,        \* scan_mod_folder: the number of jars scanned
    mods,     \* the registry, a dict in insertion order
    out,      \* export_to_dot: the lines of the graph
    e,        \* export_to_dot: the number of (mod, dep) pairs the edge loop has done
    missing_required,
    missing_optional,
    probes,   \* the _path arguments is_dependency_embedded got for the last edge
    raisedIn, \* the function an uncaught exception came from
    written   \* the lines written to output_path

vars == <<jar, arg, ret, folder, pc, i, mods, out, e, missing_required,
          missing_optional, probes, raisedIn, written>>

unitVars == <<jar, arg, ret>>
mainVars == <<folder, pc, i, mods, out, e, missing_required, missing_optional,
              probes, raisedIn, written>>

NoCall == [fn |-> "", raised |-> FALSE, desc |-> NONE, value |-> FALSE, h |-> 0]

MainIdle ==
    /\ folder = <<>>
    /\ pc = "idle"
    /\ i = 0
    /\ mods = <<>>
    /\ out = <<>>
    /\ e = 0
    /\ missing_required = {}
    /\ missing_optional = {}
    /\ probes = <<>>
    /\ raisedIn = ""
    /\ written = <<>>

UnitIdle ==
    /\ jar = NoBytes
    /\ arg = ""
    /\ ret = NoCall

----------------------------------------------------------------------------
(* The functions called one at a time on any archive *)

UnitInit ==
    /\ jar \in UnitJars
    /\ arg \in DepArgs
    /\ ret = NoCall
    /\ MainIdle

CallExtractModMetadata ==
    /\ ret.fn = ""
    /\ ret' = [fn |-> "extract_mod_metadata", raised |-> FALSE,
               desc |-> extract_mod_metadata(jar, 1), value |-> FALSE, h |-> 0]
    /\ UNCHANGED <<jar, arg>>
    /\ UNCHANGED mainVars

CallExtractMetadataFromBytes ==
    /\ ret.fn = ""
    /\ ret' = [fn |-> "extract_metadata_from_bytes", raised |-> FALSE,
               desc |-> extract_metadata_from_bytes(jar), value |-> FALSE, h |-> 0]
    /\ UNCHANGED <<jar, arg>>
    /\ UNCHANGED mainVars

CallIsDependencyEmbedded ==
    /\ ret.fn = ""
    /\ LET r == is_dependency_embedded(jar, arg)
       IN ret' = [fn |-> "is_dependency_embedded", raised |-> r.raised,
                  desc |-> NONE, value |-> r.value, h |-> r.h]
    /\ UNCHANGED <<jar, arg>>
    /\ UNCHANGED mainVars

UnitNext ==
    \/ CallExtractModMetadata
    \/ CallExtractMetadataFromBytes
    \/ CallIsDependencyEmbedded

SpecUnit == UnitInit /\ [][UnitNext]_vars

----------------------------------------------------------------------------
(* The folders __main__ is run on *)

TomlDep(owner, modId, mandatory) == [owner |-> owner, modId |-> modId, mandatory |-> mandatory]

FolderJars ==
    { \* alpha: needs beta, recommends libx, suggests eta
      Jar(TRUE, Fabric("ok", "alpha", "Alpha Mod", <<"beta">>, <<"libx">>, <<"eta">>, <<>>),
          NoFile, NoFile, <<>>),
      \* beta: needs libx and forge
      Jar(TRUE, NoFile,
          Toml("ok", <<[modId |-> "beta", displayName |-> "Beta"]>>,
               <<TomlDep("beta", "forge", "true"), TomlDep("beta", "libx", "true")>>),
          NoFile, <<>>),
      \* another file declaring beta, with other dependencies
      Jar(TRUE, NoFile, NoFile, Mcmod("ok", "beta", NoneVal, <<"alpha">>, <<"Forge">>), <<>>),
      \* gamma: needs libx and bundles it as a nested jar
      Jar(TRUE, Fabric("ok", "gamma", NoneVal, <<"libx", "java">>, <<>>, <<>>, <<>>),
          NoFile, NoFile,
          <<Nested(<<"META-INF", "jars">>, "jar",
                   Jar(TRUE, FabricOf("libx"), NoFile, NoFile, <<>>))>>),
      \* libx itself
      Jar(TRUE, FabricOf("libx"), NoFile, NoFile, <<>>),
      \* zeta: suggests libx and LibX, ships the assets of LibX
      Jar(TRUE, Fabric("ok", "zeta", NoneVal, <<>>, <<>>, <<"libx", "LibX">>, <<>>),
          NoFile, NoFile, <<Entry(<<"assets", "LibX">>, "png")>>),
      \* a loader shipped as a mod
      Jar(TRUE, Fabric("ok", "Forge", NoneVal, <<"alpha">>, <<>>, <<>>, <<>>),
          NoFile, NoFile, <<>>),
      \* manifests without a usable id
      Jar(TRUE, FabricOf(NoneVal), NoFile, NoFile, <<>>),
      Jar(TRUE, NoFile, NoFile, McmodOf(""), <<>>),
      \* "id": 42
      Jar(TRUE, FabricOf(IntVal), NoFile, NoFile, <<>>),
      \* delta: a dependency table without modId
      Jar(TRUE, NoFile,
          Toml("ok", <<[modId |-> "delta", displayName |-> NoneVal]>>,
               <<TomlDep("delta", NoneVal, "true")>>),
          NoFile, <<>>),
      \* eps: "dependencies": [42]
      Jar(TRUE, NoFile, NoFile, Mcmod("ok", "eps", NoneVal, <<IntVal>>, <<>>), <<>>),
      \* a broken fabric.mod.json beside a good mcmod.info
      Jar(TRUE, FabricBad, NoFile, McmodOf("eta"), <<>>),
      \* not a zip file
      NoBytes }

Folders == Arrays(FolderJars, MaxJars)

\* sorted() on the identifiers of the model (code point order).
SortOrder == <<"", "Forge", "LibX", "alpha", "beta", "delta", "eps", "eta", "forge",
               "gamma", "java", "libx", "zeta">>

Sorted(S) ==
    LET In(x) == x \in S
    IN SelectSeq(SortOrder, In)

----------------------------------------------------------------------------
(* Scan folder of .jar files *)

\* A registry that keeps the earlier entry beside the later one.
RegistryPutAppend(ms, key, info) == Append(ms, [key |-> key, val |-> info])

\* mods[key] = info on the dict mods, a sequence of [key, val] in insertion
\* order: an existing key keeps its place and gets the new value.
RegistryPut(ms, key, info) ==
    IF \E k \in 1..Len(ms) : ms[k].key = key
    THEN [k \in 1..Len(ms) |-> IF ms[k].key = key THEN [key |-> key, val |-> info] ELSE ms[k]]
    ELSE Append(ms, [key |-> key, val |-> info])

\* The dict comprehension of lines 276-280.
FilterDepends(depends) ==
    LET Keep(x) == ~should_ignore(x.dep)
    IN SelectSeq(depends, Keep)

FilterRaises(depends) == \E k \in 1..Len(depends) : should_ignore_raises(depends[k].dep)

\* if info and info["id"] and not should_ignore(info["id"])
Passes(info) == ~info.none /\ Truthy(info.id) /\ ~should_ignore(info.id)

Init ==
    /\ folder \in Folders
    /\ pc = "scan"
    /\ i = 0
    /\ mods = <<>>
    /\ out = <<>>
    /\ e = 0
    /\ missing_required = {}
    /\ missing_optional = {}
    /\ probes = <<>>
    /\ raisedIn = ""
    /\ written = <<>>
    /\ UnitIdle

\* One turn of the loop of scan_mod_folder.
ScanJar ==
    /\ pc = "scan"
    /\ i < Len(folder)
    /\ LET info == extract_mod_metadata(folder[i + 1], i + 1)
       IN IF ~info.none /\ Truthy(info.id) /\ should_ignore_raises(info.id)
          THEN /\ pc' = "raised"
               /\ raisedIn' = "should_ignore"
               /\ UNCHANGED <<i, mods>>
          ELSE IF ~Passes(info)
          THEN /\ i' = i + 1
               /\ UNCHANGED <<pc, raisedIn, mods>>
          ELSE IF FilterRaises(info.depends)
          THEN /\ pc' = "raised"
               /\ raisedIn' = "should_ignore"
               /\ UNCHANGED <<i, mods>>
          ELSE /\ mods' = RegistryPut(mods, info.id, [info EXCEPT !.depends = FilterDepends(@)])
               /\ i' = i + 1
               /\ UNCHANGED <<pc, raisedIn>>
    /\ UNCHANGED <<folder, out, e, missing_required, missing_optional, probes, written>>
    /\ UNCHANGED unitVars

\* return mods; __main__ prints the registry and calls export_to_dot.
ScanReturn ==
    /\ pc = "scan"
    /\ i = Len(folder)
    /\ pc' = "nodes"
    /\ UNCHANGED <<folder, i, mods, out, e, missing_required, missing_optional, probes,
                   raisedIn, written>>
    /\ UNCHANGED unitVars

----------------------------------------------------------------------------
(* Export dependency graph to .dot *)

Text(t) == [kind |-> "text", id |-> "", to |-> "", label |-> t, color |-> ""]
NodeLine(mod_id, name) ==
    [kind |-> "node", id |-> mod_id, to |-> "", label |-> name, color |-> "white"]
EdgeLine(mod_id, dep, color) ==
    [kind |-> "edge", id |-> mod_id, to |-> dep, label |-> "", color |-> color]
MissingLine(dep, label, color) ==
    [kind |-> "missing", id |-> dep, to |-> "", label |-> label, color |-> color]

installed_none(ms) == {}

\* installed = set(mods.keys())
installed(ms) == {ms[k].key : k \in 1..Len(ms)}

\* The (mod, dep) pairs in the order of the two for loops of lines 309-310.
RECURSIVE EdgePairs(_, _)
EdgePairs(ms, k) ==
    IF k > Len(ms) THEN <<>>
    ELSE [d \in 1..Len(ms[k].val.depends) |-> [mod |-> k, dep |-> d]] \o EdgePairs(ms, k + 1)

\* for embedded_mod in mods.values(): the probes from the k-th mod on.
RECURSIVE ProbeLoop(_, _, _, _, _)
ProbeLoop(fld, ms, k, dep, probed) ==
    IF k > Len(ms) THEN [raised |-> FALSE, found |-> FALSE, probed |-> probed]
    ELSE LET r == is_dependency_embedded(fld[ms[k].val.path], dep)
             seen == Append(probed, ms[k].val.path)
         IN IF r.raised THEN [raised |-> TRUE, found |-> FALSE, probed |-> seen]
            ELSE IF r.value THEN [raised |-> FALSE, found |-> TRUE, probed |-> seen]
            ELSE ProbeLoop(fld, ms, k + 1, dep, seen)

EdgeColorSwapped(dep_missing, required) ==
    IF ~dep_missing THEN "" ELSE IF required THEN "yellow" ELSE "red"

\* Now classify based on presence (lines 323-331).
EdgeColor(dep_missing, required) ==
    IF ~dep_missing THEN "" ELSE IF required THEN "red" ELSE "yellow"

\* out = [...] and the nodes for installed mods.
ExportNodes ==
    /\ pc = "nodes"
    /\ out' = <<Text("digraph mods {"), Text("rankdir"), Text("node")>>
              \o [k \in 1..Len(mods) |-> NodeLine(mods[k].key, mods[k].val.name)]
    /\ missing_required' = {}
    /\ missing_optional' = {}
    /\ e' = 0
    /\ pc' = "edges"
    /\ UNCHANGED <<folder, i, mods, probes, raisedIn, written>>
    /\ UNCHANGED unitVars

\* One turn of the inner loop over data["depends"].items().
ExportEdge ==
    /\ pc = "edges"
    /\ e < Len(EdgePairs(mods, 1))
    /\ LET pair == EdgePairs(mods, 1)[e + 1]
           mod_id == mods[pair.mod].key
           data == mods[pair.mod].val
           dep == data.depends[pair.dep].dep
           required == data.depends[pair.dep].required
           absent == dep \notin installed(mods)
           probe == IF absent THEN ProbeLoop(folder, mods, 1, dep, <<>>)
                    ELSE [raised |-> FALSE, found |-> FALSE, probed |-> <<>>]
           dep_missing == absent /\ ~probe.found
       IN /\ probes' = probe.probed
          /\ IF probe.raised
             THEN /\ pc' = "raised"
                  /\ raisedIn' = "is_dependency_embedded"
                  /\ UNCHANGED <<out, e, missing_required, missing_optional>>
             ELSE /\ out' = Append(out, EdgeLine(mod_id, dep, EdgeColor(dep_missing, required)))
                  /\ missing_required' =
                        IF dep_missing /\ required THEN missing_required \cup {dep}
                        ELSE missing_required
                  /\ missing_optional' =
                        IF dep_missing /\ ~required THEN missing_optional \cup {dep}
                        ELSE missing_optional
                  /\ e' = e + 1
                  /\ UNCHANGED <<pc, raisedIn>>
    /\ UNCHANGED <<folder, i, mods, written>>
    /\ UNCHANGED unitVars

\* Nodes for missing dependencies, the closing brace and write_text.
ExportMissingNodes ==
    /\ pc = "edges"
    /\ e = Len(EdgePairs(mods, 1))
    /\ LET req == Sorted(missing_required)
           opt == Sorted(missing_optional)
           lines == out
                    \o [k \in 1..Len(req) |-> MissingLine(req[k], "MISSING REQUIRED", "red")]
                    \o [k \in 1..Len(opt) |-> MissingLine(opt[k], "optional missing", "yellow")]
                    \o <<Text("}")>>
       IN /\ out' = lines
          /\ written' = lines
    /\ pc' = "done"
    /\ UNCHANGED <<folder, i, mods, e, missing_required, missing_optional, probes, raisedIn>>
    /\ UNCHANGED unitVars

Next ==
    \/ ScanJar
    \/ ScanReturn
    \/ ExportNodes
    \/ ExportEdge
    \/ ExportMissingNodes

Spec == Init /\ [][Next]_vars

----------------------------------------------------------------------------
(* Properties of scan_mod_folder followed by export_to_dot *)

Exporting == pc \in {"edges", "done"}

EdgesOf(lines) ==
    LET IsEdge(l) == l.kind = "edge"
    IN SelectSeq(lines, IsEdge)

MissingNodesOf(lines) ==
    LET IsMissing(l) == l.kind = "missing"
    IN SelectSeq(lines, IsMissing)

Keys == {mods[k].key : k \in 1..Len(mods)}

\* The registered mods whose source archive embeds dep.
Embedders(dep) ==
    {k \in 1..Len(mods) : is_dependency_embedded(folder[mods[k].val.path], dep).value}

Min(S) == CHOOSE x \in S : \A y \in S : x <= y

StatusOf(dep, required) ==
    IF dep \in Keys THEN "satisfied"
    ELSE IF Embedders(dep) # {} THEN "satisfied"
    ELSE IF required THEN "missing_required"
    ELSE "missing_optional"

ColorOf(status) ==
    CASE status = "satisfied" -> ""
      [] status = "missing_required" -> "red"
      [] status = "missing_optional" -> "yellow"

\* The archives probed for dep: none for a registry key, else the registry's
\* archives in order up to the first that embeds dep.
ProbedFor(dep) ==
    IF dep \in Keys THEN <<>>
    ELSE LET last == IF Embedders(dep) = {} THEN Len(mods) ELSE Min(Embedders(dep))
         IN [k \in 1..last |-> mods[k].val.path]

C2_OnePlaceholderPerMissing ==
    pc = "done" =>
        \A d \in missing_required \cup missing_optional :
            Cardinality({k \in 1..Len(written) :
                            written[k].kind = "missing" /\ written[k].id = d}) = 1

\* An identifier in the exclusion set, compared case-insensitively.
Excluded(id) == IsStr(id) /\ Lower(id) \in IGNORED_MODS

\* C3: no excluded identifier is a registry key or a key of a registered mod's
\* depends, and no line of the graph names one.
C3_NoExcludedIdentifier ==
    /\ \A k \in 1..Len(mods) :
          /\ ~Excluded(mods[k].key)
          /\ \A d \in DictKeys(mods[k].val.depends) : ~Excluded(d)
    /\ \A k \in 1..Len(out) : ~Excluded(out[k].id) /\ ~Excluded(out[k].to)
    /\ \A k \in 1..Len(written) : ~Excluded(written[k].id) /\ ~Excluded(written[k].to)

\* What the archive at place j of the folder declares.
Declared(j) == extract_mod_metadata(folder[j], j)

\* The graph is written for a folder in which one archive declares an excluded
\* id in another case and a registered mod's manifest declares excluded
\* dependencies.
C3_Witness ==
    /\ pc = "done"
    /\ \E j \in 1..Len(folder) : ~Declared(j).none /\ Declared(j).id = "Forge"
    /\ \E k \in 1..Len(mods) :
          /\ \E d \in DictKeys(Declared(mods[k].val.path).depends) : Excluded(d)
          /\ mods[k].val.depends # <<>>
    /\ EdgesOf(written) # <<>>

\* C5: is_dependency_embedded never raises for a dependency identifier that is
\* a key of a registered mod's depends.
C5_DetectorNeverRaises == raisedIn # "is_dependency_embedded"

\* C6: scan_mod_folder followed by export_to_dot is never aborted by an error.
C6_RunsToCompletion == pc # "raised"

\* C8: after each step of the scan every registry key is a non-empty string,
\* keys are unique, the descriptor under key k has id k and is the (filtered)
\* descriptor of the last scanned archive declaring k, and every scanned
\* archive that passes the filter has its id registered.
C8_RegistryInvariant ==
    /\ \A k \in 1..Len(mods) :
          LET key == mods[k].key
              val == mods[k].val
          IN /\ IsStr(key) /\ key # ""
             /\ val.id = key
             /\ val.path \in 1..i
             /\ val = [Declared(val.path) EXCEPT !.depends = FilterDepends(@)]
             /\ \A j \in (val.path + 1)..i : Declared(j).none \/ Declared(j).id # key
    /\ \A a, b \in 1..Len(mods) : a # b => mods[a].key # mods[b].key
    /\ \A j \in 1..i : Passes(Declared(j)) => Declared(j).id \in Keys

\* Two different archives declaring the same id have been scanned, and the
\* registry holds the second one's descriptor alone.
C8_Witness ==
    /\ i = 2
    /\ folder[1] # folder[2]
    /\ ~Declared(1).none /\ ~Declared(2).none
    /\ Declared(1).id = Declared(2).id
    /\ Declared(1).depends # Declared(2).depends
    /\ Len(mods) = 1
    /\ mods[1].val.path = 2

\* C10: the edges to one dependency identifier are all satisfied or all
\* missing; an identifier with a placeholder node has no satisfied edge, and a
\* registry key has no placeholder node and is in neither missing set.
C10_StatusPerIdentifier ==
    Exporting =>
        LET edges == EdgesOf(out)
            holders == MissingNodesOf(out)
        IN /\ \A a, b \in 1..Len(edges) :
                edges[a].to = edges[b].to => (edges[a].color = "" <=> edges[b].color = "")
           /\ \A d \in missing_required \cup missing_optional :
                /\ d \notin Keys
                /\ \A a \in 1..Len(edges) : edges[a].to = d => edges[a].color # ""
           /\ \A h \in 1..Len(holders) :
                /\ holders[h].id \notin Keys
                /\ \A a \in 1..Len(edges) : edges[a].to = holders[h].id => edges[a].color # ""

\* The graph is written with two mods referring to one missing identifier and
\* a mod referring to a registered one.
C10_Witness ==
    /\ pc = "done"
    /\ \E a, b, c \in 1..Len(EdgesOf(written)) :
          LET edges == EdgesOf(written)
          IN /\ edges[a].id # edges[b].id
             /\ edges[a].to = edges[b].to
             /\ edges[a].color # ""
             /\ edges[c].to \in Keys
    /\ MissingNodesOf(written) # <<>>

----------------------------------------------------------------------------
(* Properties of the functions called on any archive *)

Extracted == ret.fn \in {"extract_mod_metadata", "extract_metadata_from_bytes"}

ParsesA == jar.fabric.present /\ jar.fabric.shape = "ok"
ParsesB == jar.toml.present /\ jar.toml.shape = "ok"
ParsesC == jar.mcmod.present /\ jar.mcmod.shape = "ok"

\* The first manifest path found, in the order A, B, C, holds a manifest that
\* fails to parse.
FirstDetectedFails ==
    \/ jar.fabric.present /\ ~ParsesA
    \/ ~jar.fabric.present /\ jar.toml.present /\ ~ParsesB
    \/ ~jar.fabric.present /\ ~jar.toml.present /\ jar.mcmod.present /\ ~ParsesC

SchemaOf == IF ParsesA THEN "A" ELSE IF ParsesB THEN "B" ELSE "C"

Elems(q) == {q[k] : k \in 1..Len(q)}

\* The dependency tables of the first mod of a Schema B manifest.
OwnTables ==
    LET Own(d) == d.owner = jar.toml.mods[1].modId
    IN SelectSeq(jar.toml.dependencies, Own)

\* The identifiers the manifest declares in a hard category ...
HardDeclared ==
    CASE SchemaOf = "A" -> Elems(jar.fabric.depends)
      [] SchemaOf = "B" -> {d.modId : d \in {x \in Elems(OwnTables) : x.mandatory = "true"}}
      [] SchemaOf = "C" -> Elems(jar.mcmod.dependencies) \cup Elems(jar.mcmod.requiredMods)

\* ... and in a soft category.
SoftDeclared ==
    CASE SchemaOf = "A" -> Elems(jar.fabric.recommends) \cup Elems(jar.fabric.suggests)
      [] SchemaOf = "B" -> {d.modId : d \in {x \in Elems(OwnTables) : x.mandatory # "true"}}
      [] SchemaOf = "C" -> {}

\* C7 as stated: a dependency declared in a soft category has required=false
\* and one declared in a hard category has required=true, also when the same
\* identifier is declared in both.
C7_HardAndSoft ==
    Extracted /\ ~ret.desc.none =>
        \A k \in 1..Len(ret.desc.depends) :
            LET x == ret.desc.depends[k]
            IN /\ x.dep \in HardDeclared => x.required
               /\ x.dep \in SoftDeclared => ~x.required

\* The mandatory flag of the last table of the mod naming dep.
LastMandatory(dep) ==
    LET Named(d) == d.modId = dep
        named == SelectSeq(OwnTables, Named)
    IN named[Len(named)].mandatory = "true"

\* C7 amended: the depends keys are the declared identifiers; one declared
\* only in hard categories has required=true, one declared only in soft
\* categories has required=false; one declared in both takes the later
\* declaration: false in Schema A (recommends and suggests come after
\* depends), the last table's mandatory flag in Schema B.
C7_LaterDeclarationWins ==
    Extracted /\ ~ret.desc.none =>
        /\ DictKeys(ret.desc.depends) = HardDeclared \cup SoftDeclared
        /\ \A k \in 1..Len(ret.desc.depends) :
            LET x == ret.desc.depends[k]
            IN /\ x.dep \in HardDeclared \ SoftDeclared => x.required
               /\ x.dep \in SoftDeclared \ HardDeclared => ~x.required
               /\ SchemaOf = "A" /\ x.dep \in SoftDeclared => ~x.required
               /\ SchemaOf = "B" => x.required = LastMandatory(x.dep)

\* A Schema A manifest naming one identifier in depends and in recommends or
\* suggests has been extracted, beside one named in depends alone.
C7_Witness ==
    /\ Extracted
    /\ ~ret.desc.none
    /\ SchemaOf = "A"
    /\ HardDeclared \cap SoftDeclared # {}
    /\ \E k \in 1..Len(ret.desc.depends) :
          ret.desc.depends[k].dep \in HardDeclared \cap SoftDeclared
          /\ ~ret.desc.depends[k].required

\* The archive has an entry under assets/<d>/ or data/<d>/, the folder named
\* exactly as the identifier is declared.
NamespaceFolderNamed(d) ==
    \E k \in 1..Len(jar.entries) :
        \/ StartsWith(jar.entries[k].dir, <<"assets", d>>)
        \/ StartsWith(jar.entries[k].dir, <<"data", d>>)

\* C9: the namespace heuristic answers true exactly when the archive has an
\* entry under assets/<d>/ or data/<d>/ with the folder named exactly d; an
\* archive with such a folder is reported as embedding d.
C9_NamespaceExactName ==
    ret.fn = "is_dependency_embedded" /\ ~ret.raised /\ jar.readable =>
        /\ NamespaceFolderNamed(arg) => ret.value
        /\ ret.h = 2 => NamespaceFolderNamed(arg)

====
